---- MODULE Spec2Model ----
(***************************************************************************)
(* A model of convgru.py: the ConvGRU1DCell and ConvGRU2DCell modules      *)
(* (construction, reset_parameters, forward) and of the manual time scan   *)
(* of tests/test_convgru1d.py.                                             *)
(*                                                                         *)
(* Tensors are records of a shape, a device and element data.  Elements    *)
(* are exact integers or symbolic terms over sigmoid, tanh, + and *, so    *)
(* that the gate equations are computed as the code writes them.  The      *)
(* tensor library (torch) is modelled by the contract the code relies on:  *)
(* the convolution size formula, its argument checks, broadcasting of      *)
(* elementwise operations, and the saturation of sigmoid and tanh.         *)
(***************************************************************************)
EXTENDS Integers, Sequences, FiniteSets, TLC

(***************************************************************************)
(* Bounds of the model.                                                    *)
(***************************************************************************)
MaxBatch == 2
MaxLen == 3
MaxInputChannels == 1
MaxChannels == 2
MaxKernel == 3
MaxRecurrentKernel == 3
MaxStride == 2
MaxPadding == 1
MaxSteps == 2
MaxValue == 1

(***************************************************************************)
(* Scalars.  Num(i) is an exact number; every other scalar is a term       *)
(* <<op, args...>> that stands for the real number it denotes.             *)
(***************************************************************************)
BigWeight == 100000
SaturationPoint == 745

Num(i) == <<"int", i>>
IsNum(s) == s[1] = "int"
IsZero(s) == IsNum(s) /\ s[2] = 0
IsOne(s) == IsNum(s) /\ s[2] = 1

Add(a, b) ==
    IF IsNum(a) /\ IsNum(b) THEN Num(a[2] + b[2])
    ELSE IF IsZero(a) THEN b
    ELSE IF IsZero(b) THEN a
    ELSE <<"add", a, b>>

Mul(a, b) ==
    IF IsNum(a) /\ IsNum(b) THEN Num(a[2] * b[2])
    ELSE IF IsZero(a) \/ IsZero(b) THEN Num(0)
    ELSE IF IsOne(a) THEN b
    ELSE IF IsOne(b) THEN a
    ELSE <<"mul", a, b>>

\* 1 - z
OneMinus(z) == IF IsNum(z) THEN Num(1 - z[2]) ELSE <<"sub", Num(1), z>>

\* torch.sigmoid: in floating point exactly 0 and 1 beyond the saturation point.
Sigmoid(a) ==
    IF IsNum(a) /\ a[2] <= -SaturationPoint THEN Num(0)
    ELSE IF IsNum(a) /\ a[2] >= SaturationPoint THEN Num(1)
    ELSE <<"sigmoid", a>>

\* torch.tanh: tanh(0) = 0, and exactly -1 and 1 beyond the saturation point.
Tanh(a) ==
    IF IsNum(a) /\ a[2] <= -SaturationPoint THEN Num(-1)
    ELSE IF IsNum(a) /\ a[2] >= SaturationPoint THEN Num(1)
    ELSE IF IsZero(a) THEN Num(0)
    ELSE <<"tanh", a>>

(***************************************************************************)
(* Tensors.                                                                *)
(***************************************************************************)
Devices == {"cpu", "cuda:0"}

\* A function over 1..n as the tuple it denotes.
AsTuple(f) == SubSeq(f, 1, Len(f))

Max(a, b) == IF a >= b THEN a ELSE b
Min(a, b) == IF a <= b THEN a ELSE b

\* The index tuples (1-based) of a tensor of the given shape.
IdxSet(shape) ==
    CASE Len(shape) = 1 -> {<<i1>> : i1 \in 1..shape[1]}
      [] Len(shape) = 2 -> {<<i1, i2>> : i1 \in 1..shape[1], i2 \in 1..shape[2]}
      [] Len(shape) = 3 ->
            {<<i1, i2, i3>> : i1 \in 1..shape[1], i2 \in 1..shape[2],
                              i3 \in 1..shape[3]}
      [] Len(shape) = 4 ->
            {<<i1, i2, i3, i4>> : i1 \in 1..shape[1], i2 \in 1..shape[2],
                                  i3 \in 1..shape[3], i4 \in 1..shape[4]}

\* A tensor whose element values are not known (randomly initialised weights
\* and everything computed from them).
Opaque(shape, dev) == [shape |-> shape, dev |-> dev, known |-> FALSE, data |-> << >>]

\* A tensor with every element equal to the scalar v.
Full(shape, dev, v) ==
    [shape |-> shape, dev |-> dev, known |-> TRUE,
     data |-> [idx \in IdxSet(shape) |-> v]]

\* torch.zeros(*shape, device=dev)
Zeros(shape, dev) == Full(shape, dev, Num(0))

NoTensor == [shape |-> << >>, dev |-> "none", known |-> FALSE, data |-> << >>]

\* The sizes after the batch and channel axes.
Spatial(shape) == SubSeq(shape, 3, Len(shape))

(***************************************************************************)
(* Broadcasting of elementwise operations (torch semantics, equal rank).   *)
(***************************************************************************)
Broadcastable(s1, s2) ==
    /\ Len(s1) = Len(s2)
    /\ \A i \in 1..Len(s1) : s1[i] = s2[i] \/ s1[i] = 1 \/ s2[i] = 1

BroadcastShape(s1, s2) == AsTuple([i \in 1..Len(s1) |-> Max(s1[i], s2[i])])

\* The element of a tensor of the given shape that index idx of the
\* broadcast result reads.
BIdx(shape, idx) ==
    AsTuple([i \in 1..Len(shape) |-> IF shape[i] = 1 THEN 1 ELSE idx[i]])

\* The scalar operations forward applies to tensors, by name.
Apply2(op, x, y) == IF op = "add" THEN Add(x, y) ELSE Mul(x, y)

Apply1(op, x) ==
    IF op = "sigmoid" THEN Sigmoid(x)
    ELSE IF op = "tanh" THEN Tanh(x)
    ELSE OneMinus(x)

Elementwise2(op, a, b) ==
    [shape |-> BroadcastShape(a.shape, b.shape), dev |-> a.dev,
     known |-> a.known /\ b.known,
     data |-> IF a.known /\ b.known
              THEN [idx \in IdxSet(BroadcastShape(a.shape, b.shape)) |->
                       Apply2(op, a.data[BIdx(a.shape, idx)], b.data[BIdx(b.shape, idx)])]
              ELSE << >>]

Elementwise1(op, a) ==
    [shape |-> a.shape, dev |-> a.dev, known |-> a.known,
     data |-> IF a.known
              THEN [idx \in IdxSet(a.shape) |-> Apply1(op, a.data[idx])]
              ELSE << >>]

\* t[:, lo:hi, ...] with Python's slice rules for 0 <= lo, hi (0-based, hi
\* exclusive, both clamped to the size of the channel axis).
SliceChannels(t, lo, hi) ==
    LET size == t.shape[2]
        from == Min(lo, size)
        to == Max(from, Min(hi, size))
        shape == <<t.shape[1], to - from>> \o SubSeq(t.shape, 3, Len(t.shape))
    IN [shape |-> shape, dev |-> t.dev, known |-> t.known,
        data |-> IF t.known
                 THEN [idx \in IdxSet(shape) |->
                          t.data[<<idx[1], idx[2] + from>> \o SubSeq(idx, 3, Len(idx))]]
                 ELSE << >>]

(***************************************************************************)
(* The convolution modules (torch.nn.Conv1d, torch.nn.Conv2d).  A sequence *)
(* of length one stands for a Python int argument, a longer one for a      *)
(* tuple.                                                                  *)
(***************************************************************************)
\* Python's int(numer / denom) for denom # 0: the quotient truncated toward 0.
PyInt(numer, denom) ==
    IF (numer >= 0) = (denom > 0)
    THEN (IF numer >= 0 THEN numer ELSE -numer) \div (IF denom > 0 THEN denom ELSE -denom)
    ELSE -((IF numer >= 0 THEN numer ELSE -numer) \div (IF denom > 0 THEN denom ELSE -denom))

\* torch's _single / _pair: an int is repeated for every spatial axis.
Expand(arg, nd) == IF Len(arg) = 1 THEN AsTuple([a \in 1..nd |-> arg[1]]) ELSE arg

ConvModule(nd, in_channels, out_channels, kernel_size, stride, padding, dev) ==
    [in_channels |-> in_channels, out_channels |-> out_channels,
     kernel_size |-> Expand(kernel_size, nd), stride |-> Expand(stride, nd),
     padding |-> Expand(padding, nd),
     weight |-> Opaque(<<out_channels, in_channels>> \o Expand(kernel_size, nd), dev),
     bias |-> Opaque(<<out_channels>>, dev)]

\* The convolution's output size along one axis.
ConvOutputSize(size, kernel, stride, padding) ==
    ((size + 2 * padding - kernel) \div stride) + 1

\* The argument checks of the convolution's forward.
ConvAccepts(conv, x) ==
    /\ Len(x.shape) = Len(conv.kernel_size) + 2
    /\ x.shape[2] = conv.in_channels
    /\ x.dev = conv.weight.dev
    /\ \A a \in 1..Len(conv.kernel_size) :
          /\ conv.stride[a] > 0
          /\ conv.padding[a] >= 0
          /\ x.shape[a + 2] + 2 * conv.padding[a] >= conv.kernel_size[a]

ConvShape(conv, x) ==
    <<x.shape[1], conv.out_channels>> \o
    [a \in 1..Len(conv.kernel_size) |->
        ConvOutputSize(x.shape[a + 2], conv.kernel_size[a], conv.stride[a],
                       conv.padding[a])]

\* The kernel taps <<input channel, kernel offset>> in row-major order.
Taps(in_channels, kernel_size) ==
    LET nd == Len(kernel_size)
        per == IF nd = 1 THEN kernel_size[1] ELSE kernel_size[1] * kernel_size[2]
    IN [q \in 1..(in_channels * per) |->
           LET c == ((q - 1) \div per) + 1
               o == (q - 1) % per
           IN IF nd = 1 THEN <<c, <<o + 1>>>>
              ELSE <<c, <<(o \div kernel_size[2]) + 1, (o % kernel_size[2]) + 1>>>>]

RECURSIVE SumScalars(_, _)
SumScalars(terms, n) ==
    IF n = 0 THEN Num(0) ELSE Add(SumScalars(terms, n - 1), terms[n])

\* One element of the cross-correlation with zero padding, plus the bias.
ConvElement(conv, x, idx) ==
    LET nd == Len(conv.kernel_size)
        taps == Taps(conv.in_channels, conv.kernel_size)
        at(q) ==
            LET c == taps[q][1]
                k == taps[q][2]
                j == [a \in 1..nd |->
                         (idx[a + 2] - 1) * conv.stride[a] + k[a] - conv.padding[a]]
            IN IF \A a \in 1..nd : j[a] \in 1..x.shape[a + 2]
               THEN Mul(conv.weight.data[<<idx[2], c>> \o k],
                        x.data[<<idx[1], c>> \o j])
               ELSE Num(0)
    IN Add(SumScalars([q \in 1..Len(taps) |-> at(q)], Len(taps)),
           conv.bias.data[<<idx[2]>>])

\* conv(x) for an argument the convolution accepts.
Conv(conv, x) ==
    LET shape == ConvShape(conv, x)
        known == x.known /\ conv.weight.known /\ conv.bias.known
    IN [shape |-> shape, dev |-> x.dev, known |-> known,
        data |-> IF known
                 THEN [idx \in IdxSet(shape) |-> ConvElement(conv, x, idx)]
                 ELSE << >>]

(***************************************************************************)
(* ConvGRU1DCell / ConvGRU2DCell: construction.  nd is the number of       *)
(* spatial axes (1 or 2); the two classes differ only in it.               *)
(***************************************************************************)
NoConv ==
    [in_channels |-> 0, out_channels |-> 0, kernel_size |-> << >>, stride |-> << >>,
     padding |-> << >>, weight |-> NoTensor, bias |-> NoTensor]

NoCell == [nd |-> 0, h_channels |-> 0, conv_ih |-> NoConv, conv_hh |-> NoConv]

\* The padding the constructor gives the hidden-to-hidden convolution:
\* recurrent_kernel_size // 2 (1D), and the same per axis (2D).
HHPadding(nd, recurrent_kernel_size) ==
    IF nd = 1 THEN <<recurrent_kernel_size[1] \div 2>>
    ELSE <<recurrent_kernel_size[1] \div 2, recurrent_kernel_size[2] \div 2>>

\* The 2D constructor subscripts recurrent_kernel_size; an int cannot be
\* subscripted (TypeError).
SubscriptRaises(nd, recurrent_kernel_size) == nd = 2 /\ Len(recurrent_kernel_size) = 1

\* The library cannot allocate a weight tensor with a negative dimension.
AllocationRaises(args) ==
    \/ args.input_channels < 0
    \/ args.hidden_channels < 0
    \/ \E a \in 1..Len(args.kernel_size) : args.kernel_size[a] < 0
    \/ \E a \in 1..Len(args.recurrent_kernel_size) : args.recurrent_kernel_size[a] < 0

\* Whether an empty weight tensor (a dimension of 0) can be initialised
\* depends on the version of the library: both outcomes are possible.
EmptyWeights(args) ==
    \/ args.input_channels = 0
    \/ args.hidden_channels = 0
    \/ \E a \in 1..Len(args.kernel_size) : args.kernel_size[a] = 0
    \/ \E a \in 1..Len(args.recurrent_kernel_size) : args.recurrent_kernel_size[a] = 0

\* The outcomes of the constructor: TRUE when it raises.
ConstructorRaises(args) ==
    IF SubscriptRaises(args.nd, args.recurrent_kernel_size) \/ AllocationRaises(args)
    THEN {TRUE}
    ELSE IF EmptyWeights(args) THEN {TRUE, FALSE}
    ELSE {FALSE}

\* reset_parameters: orthogonal and Xavier weights (values not known), zero
\* biases.
ResetConv(conv) ==
    [conv EXCEPT !.weight = Opaque(conv.weight.shape, conv.weight.dev),
                 !.bias = Zeros(conv.bias.shape, conv.bias.dev)]

reset_parameters(c) ==
    [c EXCEPT !.conv_hh = ResetConv(c.conv_hh), !.conv_ih = ResetConv(c.conv_ih)]

\* The cell a constructor call that does not raise returns.
NewCell(args) ==
    reset_parameters(
        [nd |-> args.nd,
         conv_ih |-> ConvModule(args.nd, args.input_channels, args.hidden_channels * 3,
                                args.kernel_size, args.stride, args.padding, "cpu"),
         conv_hh |-> ConvModule(args.nd, args.hidden_channels, args.hidden_channels * 3,
                                args.recurrent_kernel_size, <<1>>,
                                HHPadding(args.nd, args.recurrent_kernel_size), "cpu"),
         h_channels |-> args.hidden_channels])

\* torch.nn.init.constant_(conv.weight, v)
ConstantWeight(conv, v) ==
    [conv EXCEPT !.weight = Full(conv.weight.shape, conv.weight.dev, Num(v))]

\* conv.weight.data = w for the tensor w the test builds: a Dirac kernel
\* (1 at the centre tap of input channel i of output channel i) over
\* in_channels output channels, repeated for the three gate blocks.
DiracRepeatedWeight(conv) ==
    LET shape == conv.weight.shape
        nd == Len(conv.kernel_size)
        centre == AsTuple([a \in 1..nd |-> (conv.kernel_size[a] \div 2) + 1])
    IN [conv EXCEPT !.weight =
           [shape |-> shape, dev |-> conv.weight.dev, known |-> TRUE,
            data |-> [idx \in IdxSet(shape) |->
                        IF /\ ((idx[1] - 1) % conv.in_channels) + 1 = idx[2]
                           /\ SubSeq(idx, 3, Len(idx)) = centre
                        THEN Num(1) ELSE Num(0)]]]

RECURSIVE SumSeq(_, _)
SumSeq(seq, n) == IF n = 0 THEN 0 ELSE SumSeq(seq, n - 1) + seq[n]

\* conv.weight.data = w for a tensor w of small integers that differ from
\* one output channel, input channel and tap to the next.
RampWeight(conv, seed) ==
    LET shape == conv.weight.shape
    IN [conv EXCEPT !.weight =
           [shape |-> shape, dev |-> conv.weight.dev, known |-> TRUE,
            data |-> [idx \in IdxSet(shape) |->
                        Num(((SumSeq(idx, Len(idx)) + idx[1] + seed) % 3) - 1)]]]

\* Module.to(device): every parameter moves to the device.
MoveConv(conv, dev) ==
    [conv EXCEPT !.weight.dev = dev, !.bias.dev = dev]

MoveCell(c, dev) ==
    [c EXCEPT !.conv_ih = MoveConv(c.conv_ih, dev), !.conv_hh = MoveConv(c.conv_hh, dev)]

(***************************************************************************)
(* forward(input, hx=None).  hx is [none |-> TRUE] for None.  The result   *)
(* records the locals of the call and whether it raised.                   *)
(***************************************************************************)
None == [none |-> TRUE, t |-> NoTensor]
Some(t) == [none |-> FALSE, t |-> t]

\* A slip in the size formula: the padding counted once.
OutputSizeSinglePadding(c, input) ==
    AsTuple([a \in 1..c.nd |->
        PyInt(input.shape[a + 2] - c.conv_ih.kernel_size[a] + c.conv_ih.padding[a],
              c.conv_ih.stride[a]) + 1])

\* output_size, one entry per spatial axis (the 1D cell computes one int,
\* the 2D cell a pair).
OutputSize(c, input) ==
    AsTuple([a \in 1..c.nd |->
        PyInt(input.shape[a + 2] - c.conv_ih.kernel_size[a] + 2 * c.conv_ih.padding[a],
              c.conv_ih.stride[a]) + 1])

\* A slip in the default hidden state: the input's own spatial size.
DefaultHiddenOfInputSize(c, input, output_size) ==
    Zeros(<<input.shape[1], c.h_channels>> \o Spatial(input.shape), input.dev)

\* The hidden state forward makes when none is given.
DefaultHidden(c, input, output_size) ==
    Zeros(<<input.shape[1], c.h_channels>> \o output_size, input.dev)

\* The three channel blocks of a convolution output.
UpdateBlock(c, t) == SliceChannels(t, 0, c.h_channels)
\* A slip in the slice bounds: the reset block one channel too far.
ResetBlockShifted(c, t) == SliceChannels(t, c.h_channels + 1, 2 * c.h_channels + 1)
ResetBlock(c, t) == SliceChannels(t, c.h_channels, 2 * c.h_channels)
\* t[:, 2*h:, :]: the upper bound is the size of the channel axis.
CandidateBlock(c, t) == SliceChannels(t, 2 * c.h_channels, t.shape[2])

NoLocals ==
    [raised |-> FALSE, where |-> "", output_size |-> << >>, hx |-> NoTensor,
     ih_conv_output |-> NoTensor, hh_conv_output |-> NoTensor, out |-> NoTensor]

Raise(locals, where) == [locals EXCEPT !.raised = TRUE, !.where = where]

\* A slip in the blend: the roles of z and 1 - z exchanged.
GatesBlendExchanged(c, ih_conv_output, hh_conv_output, hx) ==
    LET z == Elementwise1("sigmoid",
                 Elementwise2("add", UpdateBlock(c, ih_conv_output),
                                   UpdateBlock(c, hh_conv_output)))
        r == Elementwise1("sigmoid",
                 Elementwise2("add", ResetBlock(c, ih_conv_output),
                                   ResetBlock(c, hh_conv_output)))
        n == Elementwise1("tanh",
                 Elementwise2("add", CandidateBlock(c, ih_conv_output),
                     Elementwise2("mul", r, CandidateBlock(c, hh_conv_output))))
    IN Elementwise2("add", Elementwise2("mul", z, n),
                         Elementwise2("mul", Elementwise1("one_minus", z), hx))

\* A slip in the blend: the candidate where the previous hidden state belongs.
GatesWithoutCarry(c, ih_conv_output, hh_conv_output, hx) ==
    LET z == Elementwise1("sigmoid",
                 Elementwise2("add", UpdateBlock(c, ih_conv_output),
                                   UpdateBlock(c, hh_conv_output)))
        r == Elementwise1("sigmoid",
                 Elementwise2("add", ResetBlock(c, ih_conv_output),
                                   ResetBlock(c, hh_conv_output)))
        n == Elementwise1("tanh",
                 Elementwise2("add", CandidateBlock(c, ih_conv_output),
                     Elementwise2("mul", r, CandidateBlock(c, hh_conv_output))))
    IN Elementwise2("add", Elementwise2("mul", Elementwise1("one_minus", z), n),
                         Elementwise2("mul", z, n))

\* The gate equations for convolution outputs whose blocks broadcast.
Gates(c, ih_conv_output, hh_conv_output, hx) ==
    LET z == Elementwise1("sigmoid",
                 Elementwise2("add", UpdateBlock(c, ih_conv_output),
                                   UpdateBlock(c, hh_conv_output)))
        r == Elementwise1("sigmoid",
                 Elementwise2("add", ResetBlock(c, ih_conv_output),
                                   ResetBlock(c, hh_conv_output)))
        n == Elementwise1("tanh",
                 Elementwise2("add", CandidateBlock(c, ih_conv_output),
                     Elementwise2("mul", r, CandidateBlock(c, hh_conv_output))))
    IN Elementwise2("add", Elementwise2("mul", Elementwise1("one_minus", z), n),
                         Elementwise2("mul", z, hx))

Forward(c, input, hx_arg) ==
    IF \E a \in 1..c.nd : c.conv_ih.stride[a] = 0
    THEN Raise(NoLocals, "output_size: division by zero")
    ELSE
    LET output_size == OutputSize(c, input)
        l1 == [NoLocals EXCEPT !.output_size = output_size]
    IN
    IF hx_arg.none /\ \E a \in 1..c.nd : output_size[a] < 0
    THEN Raise(l1, "zeros: negative dimension")
    ELSE
    LET hx == IF hx_arg.none THEN DefaultHidden(c, input, output_size) ELSE hx_arg.t
        l2 == [l1 EXCEPT !.hx = hx]
    IN
    IF ~ConvAccepts(c.conv_ih, input) THEN Raise(l2, "conv_ih")
    ELSE
    LET ih_conv_output == Conv(c.conv_ih, input)
        l3 == [l2 EXCEPT !.ih_conv_output = ih_conv_output]
    IN
    IF ~ConvAccepts(c.conv_hh, hx) THEN Raise(l3, "conv_hh")
    ELSE
    LET hh_conv_output == Conv(c.conv_hh, hx)
        l4 == [l3 EXCEPT !.hh_conv_output = hh_conv_output]
        zshape == BroadcastShape(UpdateBlock(c, ih_conv_output).shape,
                                 UpdateBlock(c, hh_conv_output).shape)
    IN
    IF ~Broadcastable(UpdateBlock(c, ih_conv_output).shape,
                      UpdateBlock(c, hh_conv_output).shape)
    THEN Raise(l4, "ih + hh: shapes do not broadcast")
    ELSE IF ~Broadcastable(zshape, hx.shape)
    THEN Raise(l4, "z * hx: shapes do not broadcast")
    ELSE [l4 EXCEPT !.out = Gates(c, ih_conv_output, hh_conv_output, hx)]

(***************************************************************************)
(* The inputs the model draws.                                             *)
(***************************************************************************)
IntArg(S) == {<<k>> : k \in S}
PairArg(S) == {<<a, b>> : a \in S, b \in S}

Args(nd, input_channels, hidden_channels, kernel_size, stride, padding, recurrent_kernel_size) ==
    [nd |-> nd, input_channels |-> input_channels, hidden_channels |-> hidden_channels,
     kernel_size |-> kernel_size, stride |-> stride, padding |-> padding,
     recurrent_kernel_size |-> recurrent_kernel_size]

\* Constructor arguments of the 1D cell: positive sizes, odd and even
\* recurrent kernels.
Args1D ==
    {Args(1, i, h, k, s, p, rk) :
        i \in 1..MaxInputChannels, h \in 1..MaxChannels,
        k \in IntArg(1..MaxKernel), s \in IntArg(1..MaxStride),
        p \in IntArg(0..MaxPadding), rk \in IntArg(1..MaxRecurrentKernel)}

\* The smallest arguments, and the same with one size not positive.
BaseArgs(nd) ==
    Args(nd, 1, 1, <<1>>, <<1>>, <<0>>, IF nd = 1 THEN <<1>> ELSE <<1, 1>>)

NonPositive == {0, -1}

FaultyArgs(nd) ==
    {[BaseArgs(nd) EXCEPT !.input_channels = v] : v \in NonPositive}
    \cup {[BaseArgs(nd) EXCEPT !.hidden_channels = v] : v \in NonPositive}
    \cup {[BaseArgs(nd) EXCEPT !.kernel_size = <<v>>] : v \in NonPositive}
    \cup {[BaseArgs(nd) EXCEPT !.stride = <<v>>] : v \in NonPositive}
    \cup {[BaseArgs(nd) EXCEPT !.recurrent_kernel_size =
              IF nd = 1 THEN <<v>> ELSE <<v, v>>] : v \in NonPositive}

\* Constructor arguments of the 2D cell: each argument as an int and as a
\* pair, the other arguments the smallest (the kernel the largest where
\* the padding varies, so that every padded input is large enough).
Args2D ==
    {Args(2, 1, MaxChannels, <<1>>, <<1>>, <<0>>, rk) :
        rk \in IntArg(1..MaxRecurrentKernel) \cup PairArg(1..MaxRecurrentKernel)}
    \cup {Args(2, 1, 1, k, <<1>>, <<0>>, <<1, 1>>) :
             k \in IntArg(1..MaxKernel) \cup PairArg(1..MaxKernel)}
    \cup {Args(2, 1, 1, <<1>>, s, <<0>>, <<1, 1>>) :
             s \in IntArg(1..MaxStride) \cup PairArg(1..MaxStride)}
    \cup {Args(2, 1, 1, <<MaxKernel>>, <<1>>, p, <<1, 1>>) :
             p \in IntArg(0..MaxPadding) \cup PairArg(0..MaxPadding)}

AllArgs == Args1D \cup Args2D \cup FaultyArgs(1) \cup FaultyArgs(2)

SpatialSizes(nd) ==
    IF nd = 1 THEN {<<l>> : l \in 1..MaxLen} ELSE {<<h, w>> : h, w \in 1..MaxLen}

\* Input frames of the cell's channel count; element values not known.
ShapeInputs(c) ==
    {Opaque(<<b, c.conv_ih.in_channels>> \o sp, dev) :
        b \in 1..MaxBatch, sp \in SpatialSizes(c.nd), dev \in Devices}

\* Hidden states of the cell's channel count on the device of the input.
ShapeHiddens(c, input) ==
    {None} \cup
    {Some(Opaque(<<b, c.h_channels>> \o sp, input.dev)) :
        b \in 1..MaxBatch, sp \in SpatialSizes(c.nd)}

\* Values of tensor elements, and tensors whose elements alternate between
\* two of them.
Values == (-1)..MaxValue

Pattern(shape, dev, lo, hi) ==
    [shape |-> shape, dev |-> dev, known |-> TRUE,
     data |-> [idx \in IdxSet(shape) |->
                 Num(IF SumSeq(idx, Len(idx)) % 2 = 0 THEN lo ELSE hi)]]

Patterns(shape, dev) ==
    {Pattern(shape, dev, v, v) : v \in Values}
    \cup {Pattern(shape, dev, v, -v) : v \in Values \ {0}}

\* The spatial sizes of the value-level frames: the shortest and the longest
\* (1D), two sizes with different axes (2D).
ValueSizes(nd) ==
    IF nd = 1 THEN {<<1>>, <<MaxLen>>} ELSE {<<1, MaxLen>>, <<MaxLen, MaxLen - 1>>}

\* Input frames with known elements, on the device of the cell.
ValueInputs(c) ==
    UNION {Patterns(<<b, c.conv_ih.in_channels>> \o sp, c.conv_ih.weight.dev) :
              b \in {1, MaxBatch}, sp \in ValueSizes(c.nd)}

\* The shape of the hidden state a step on the input returns.
StepShape(c, input) ==
    <<input.shape[1], c.h_channels>> \o Spatial(ConvShape(c.conv_ih, input))

\* None, and hidden states with known elements of the shape of the step's
\* result.
ValueHiddens(c, input) ==
    {None} \cup
    IF ConvAccepts(c.conv_ih, input)
    THEN {Some(t) : t \in Patterns(StepShape(c, input), input.dev)}
    ELSE {}

\* The arguments of a call of forward: tensors of every shape with unknown
\* elements ("shapes"), or tensors of fitting shape with known elements.
CallInputs(level, c) == IF level = "shapes" THEN ShapeInputs(c) ELSE ValueInputs(c)

CallHiddens(level, c, input) ==
    IF level = "shapes" THEN ShapeHiddens(c, input) ELSE ValueHiddens(c, input)

\* The frames and initial hidden states of a scan (1D cells): one sample
\* per batch, one or two features, every element of a tensor the same, the
\* least or the greatest value.
ScanSizes == {<<1>>, <<2>>}

ScanPatterns(shape, dev) == {Pattern(shape, dev, v, v) : v \in {-1, MaxValue}}

ScanFrames(c) ==
    UNION {ScanPatterns(<<1, c.conv_ih.in_channels>> \o sp, c.conv_ih.weight.dev) :
              sp \in ScanSizes}

ScanHiddens(c, input) ==
    {None} \cup
    IF ConvAccepts(c.conv_ih, input)
    THEN {Some(t) : t \in ScanPatterns(StepShape(c, input), input.dev)}
    ELSE {}

\* The constructor calls of the value-level runs: the test's (equal
\* channel counts, kernel 3, stride 1, padding 1, the default recurrent
\* kernel), one strided 1D cell and one 2D cell.
ValueArgs ==
    {Args(1, ch, ch, <<3>>, <<1>>, <<1>>, <<3>>) : ch \in 1..MaxChannels}
    \cup {Args(1, 1, MaxChannels, <<2>>, <<2>>, <<1>>, <<1>>)}
    \cup {Args(2, 1, MaxChannels, <<1, 2>>, <<1>>, <<0>>, <<3, 1>>)}

(***************************************************************************)
(* State.                                                                  *)
(***************************************************************************)
VARIABLES
    ctor,   \* the last constructor call: its arguments and whether it raised
    cell,   \* the cell (NoCell before a constructor has returned)
    fwd,    \* the forward call in hand: its arguments and its locals
    scan    \* the time scan in hand

vars == <<ctor, cell, fwd, scan>>

NoCall == [called |-> FALSE, input |-> NoTensor, hx |-> None, locals |-> NoLocals]

NoScan ==
    [pc |-> "idle", steps |-> 0, step |-> 0, initial |-> None, hx |-> None,
     frames |-> << >>, output |-> << >>]

Init ==
    /\ ctor = [called |-> FALSE, args |-> BaseArgs(1), raised |-> FALSE]
    /\ cell = NoCell
    /\ fwd = NoCall
    /\ scan = NoScan

\* The state after one of the value-level constructor calls.
InitValues ==
    /\ \E args \in ValueArgs :
          /\ ctor = [called |-> TRUE, args |-> args, raised |-> FALSE]
          /\ cell = NewCell(args)
    /\ fwd = NoCall
    /\ scan = NoScan

\* ConvGRU1DCell(...) / ConvGRU2DCell(...)
Construct(argset) ==
    /\ ~ctor.called
    /\ \E args \in argset : \E raised \in ConstructorRaises(args) :
          /\ ctor' = [called |-> TRUE, args |-> args, raised |-> raised]
          /\ cell' = IF raised THEN NoCell ELSE NewCell(args)
    /\ UNCHANGED <<fwd, scan>>

\* forward is modelled for cells without empty weights.
Usable(c) ==
    /\ c # NoCell
    /\ c.h_channels > 0
    /\ c.conv_ih.in_channels > 0
    /\ \A a \in 1..c.nd : c.conv_ih.kernel_size[a] > 0 /\ c.conv_hh.kernel_size[a] > 0

\* No call or scan is in hand.
Idle == ~fwd.called /\ scan.pc = "idle"

\* cell.to(device)
To ==
    /\ Usable(cell)
    /\ Idle
    /\ \E dev \in Devices : cell' = MoveCell(cell, dev)
    /\ UNCHANGED <<ctor, fwd, scan>>

\* cell.reset_parameters()
ResetParameters ==
    /\ Usable(cell)
    /\ Idle
    /\ cell' = reset_parameters(cell)
    /\ UNCHANGED <<ctor, fwd, scan>>

\* The test's weights for output = tanh(input): a repeated Dirac kernel
\* from input to hidden, -10**5 from hidden to hidden.
IdentityGateWeights(c) ==
    [c EXCEPT !.conv_ih = DiracRepeatedWeight(c.conv_ih),
              !.conv_hh = ConstantWeight(c.conv_hh, -BigWeight)]

\* The test's weights for output = hidden: 10**5 from input to hidden, 1
\* from hidden to hidden.
PassThroughWeights(c) ==
    [c EXCEPT !.conv_ih = ConstantWeight(c.conv_ih, BigWeight),
              !.conv_hh = ConstantWeight(c.conv_hh, 1)]

\* Weights of small integers, as training or an assignment may leave them.
SmallWeights(c) ==
    [c EXCEPT !.conv_ih = RampWeight(c.conv_ih, 0),
              !.conv_hh = RampWeight(c.conv_hh, 1)]

\* The weights are assigned.
SetWeights ==
    /\ Usable(cell)
    /\ Idle
    /\ \/ /\ cell.conv_ih.in_channels = cell.h_channels
          /\ cell' = IdentityGateWeights(cell)
       \/ cell' = PassThroughWeights(cell)
       \/ cell' = SmallWeights(cell)
    /\ UNCHANGED <<ctor, fwd, scan>>

\* cell(input, hx)
ForwardCall(level) ==
    /\ Usable(cell)
    /\ Idle
    /\ \E input \in CallInputs(level, cell) : \E hx \in CallHiddens(level, cell, input) :
          fwd' = [called |-> TRUE, input |-> input, hx |-> hx,
                  locals |-> Forward(cell, input, hx)]
    /\ UNCHANGED <<ctor, cell, scan>>

\* The caller drops the result of the call.
Return ==
    /\ fwd.called
    /\ fwd' = NoCall
    /\ UNCHANGED <<ctor, cell, scan>>

(***************************************************************************)
(* The scan over time: output = []; hx = None; for step in range(T):       *)
(* hx = cell(data[step], hx); output.append(hx).  The frames of a scan     *)
(* have one shape; a caller's initial hidden state is admitted as well.    *)
(***************************************************************************)
\* A slip in the loop: the result not carried to the next step.
NextHiddenDropped(out) == None

\* The hidden state the next step receives.
NextHidden(out) == Some(out)

\* The loop's set-up: the steps to take, the first frame and the hidden
\* state step 0 receives (None, or one the caller supplies).
ScanStart ==
    /\ Usable(cell)
    /\ cell.nd = 1
    /\ Idle
    /\ \E steps \in 1..MaxSteps : \E first \in ScanFrames(cell) :
       \E initial \in ScanHiddens(cell, first) :
          scan' = [pc |-> "running", steps |-> steps, step |-> 0, initial |-> initial,
                   hx |-> initial, frames |-> <<first>>, output |-> << >>]
    /\ UNCHANGED <<ctor, cell, fwd>>

\* One turn of the loop; frames[step + 1] is data[step].
ScanStep ==
    /\ scan.pc = "running"
    /\ LET locals == Forward(cell, scan.frames[scan.step + 1], scan.hx)
       IN IF locals.raised
          THEN scan' = [scan EXCEPT !.pc = "failed"]
          ELSE \E following \in
                    IF scan.step + 1 < scan.steps
                    THEN {<<t>> : t \in ScanPatterns(scan.frames[1].shape,
                                                     scan.frames[1].dev)}
                    ELSE {<< >>} :
                  scan' = [scan EXCEPT
                      !.hx = NextHidden(locals.out),
                      !.output = Append(@, locals.out),
                      !.step = @ + 1,
                      !.frames = @ \o following,
                      !.pc = IF scan.step + 1 < scan.steps THEN "running" ELSE "done"]
    /\ UNCHANGED <<ctor, cell, fwd>>

\* The caller drops the scan's results.
ScanEnd ==
    /\ scan.pc \in {"done", "failed"}
    /\ scan' = NoScan
    /\ UNCHANGED <<ctor, cell, fwd>>

Next ==
    \/ Construct(AllArgs)
    \/ To
    \/ ResetParameters
    \/ ForwardCall("shapes")
    \/ Return

Spec == Init /\ [][Next]_vars

NextValues ==
    \/ SetWeights
    \/ ResetParameters
    \/ ForwardCall("values")
    \/ Return
    \/ ScanStart
    \/ ScanStep
    \/ ScanEnd

SpecValues == InitValues /\ [][NextValues]_vars

(***************************************************************************)
(* Properties of construction and of the shapes of forward (Spec).         *)
(***************************************************************************)
\* The size the convolution size formula gives, per spatial axis:
\* floor((size - kernel + 2 * padding) / stride) + 1.
FormulaSize(c, input) ==
    AsTuple([a \in 1..c.nd |->
        ((input.shape[a + 2] - c.conv_ih.kernel_size[a] + 2 * c.conv_ih.padding[a])
            \div c.conv_ih.stride[a]) + 1])

\* A configuration the constructor's documentation admits: positive stride,
\* odd recurrent kernel.
ValidConfiguration(c) ==
    \A a \in 1..c.nd : c.conv_ih.stride[a] > 0 /\ c.conv_hh.kernel_size[a] % 2 = 1

\* An input the input-to-hidden convolution is defined on.
ValidInput(c, input) ==
    /\ Len(input.shape) = c.nd + 2
    /\ input.shape[2] = c.conv_ih.in_channels
    /\ input.dev = c.conv_ih.weight.dev
    /\ \A a \in 1..c.nd :
          input.shape[a + 2] + 2 * c.conv_ih.padding[a] >= c.conv_ih.kernel_size[a]

\* C1: forward(input) without a hidden state, on a valid input of a cell
\* with a valid configuration (1D or 2D), returns a tensor of shape (batch,
\* hidden_channels, out...) on the input's device, where out is the
\* convolution size formula per axis; the output_size the cell computes
\* equals the spatial size of the input-to-hidden convolution's output.
C1_ShapeProperty ==
    (fwd.called /\ fwd.hx.none /\ ValidConfiguration(cell) /\ ValidInput(cell, fwd.input))
    => /\ ~fwd.locals.raised
       /\ fwd.locals.output_size = Spatial(fwd.locals.ih_conv_output.shape)
       /\ fwd.locals.out.shape =
             <<fwd.input.shape[1], cell.h_channels>> \o FormulaSize(cell, fwd.input)
       /\ fwd.locals.out.dev = fwd.input.dev

\* A 2D step without a hidden state whose result is smaller than the input
\* along the strided axis.
C1_Witness ==
    /\ fwd.called /\ fwd.hx.none
    /\ ValidConfiguration(cell) /\ ValidInput(cell, fwd.input)
    /\ cell.nd = 2
    /\ cell.conv_ih.stride = <<1, 2>>
    /\ fwd.input.shape = <<2, 1, 3, 3>>
    /\ fwd.locals.out.shape = <<2, 1, 3, 2>>

\* C2 (as claimed): a step given a hidden state whose batch or spatial size
\* differs from the size of the input-to-hidden convolution's output raises.
C2_MismatchRaises ==
    (/\ fwd.called /\ ~fwd.hx.none
     /\ fwd.locals.ih_conv_output # NoTensor
     /\ fwd.hx.t.shape # StepShape(cell, fwd.input))
    => fwd.locals.raised

\* C3 (as claimed): the hidden-to-hidden convolution of a constructed cell
\* has stride 1 and padding floor(recurrent kernel / 2), and its output has
\* the spatial size of its input.
C3_RecurrentSizePreserved ==
    Usable(cell)
    => /\ \A a \in 1..cell.nd :
            /\ cell.conv_hh.stride[a] = 1
            /\ cell.conv_hh.padding[a] = cell.conv_hh.kernel_size[a] \div 2
       /\ (fwd.called /\ fwd.locals.hh_conv_output # NoTensor)
          => Spatial(fwd.locals.hh_conv_output.shape) = Spatial(fwd.locals.hx.shape)

\* Arguments the specification calls a configuration error.
InvalidArgs(args) ==
    \/ args.input_channels <= 0
    \/ args.hidden_channels <= 0
    \/ \E a \in 1..Len(args.kernel_size) : args.kernel_size[a] <= 0
    \/ \E a \in 1..Len(args.stride) : args.stride[a] <= 0
    \/ \E a \in 1..Len(args.recurrent_kernel_size) : args.recurrent_kernel_size[a] % 2 = 0

\* C4 (as claimed): the constructor raises on non-positive channels, kernel
\* size or stride and on an even recurrent kernel size.
C4_InvalidArgsRaise ==
    (ctor.called /\ InvalidArgs(ctor.args)) => ctor.raised

\* C5: without a hidden state, the hidden state of the step is all zeros,
\* of shape (batch of the input, hidden_channels, spatial size of the
\* input-to-hidden convolution's output...), on the input's device.
C5_DefaultHiddenState ==
    (fwd.called /\ fwd.hx.none /\ fwd.locals.ih_conv_output # NoTensor)
    => /\ fwd.locals.hx.shape =
             <<fwd.input.shape[1], cell.h_channels>> \o
             Spatial(fwd.locals.ih_conv_output.shape)
       /\ fwd.locals.hx.dev = fwd.input.dev
       /\ fwd.locals.hx.known
       /\ \A idx \in IdxSet(fwd.locals.hx.shape) : fwd.locals.hx.data[idx] = Num(0)

\* A step without a hidden state, on the second device, whose convolution
\* output is smaller than the input.
C5_Witness ==
    /\ fwd.called /\ fwd.hx.none
    /\ fwd.locals.ih_conv_output # NoTensor
    /\ fwd.input.dev = "cuda:0"
    /\ Spatial(fwd.input.shape) = <<3>>
    /\ Spatial(fwd.locals.hx.shape) = <<2>>
    /\ ~fwd.locals.raised

\* C10 (as claimed): the 2D constructor accepts every argument as an int or
\* as a pair, and an int recurrent kernel k gives the padding (k // 2, k // 2).
C10_IntOrPairAccepted ==
    (ctor.called /\ ctor.args.nd = 2 /\ ~InvalidArgs(ctor.args))
    => /\ ~ctor.raised
       /\ cell.conv_hh.padding =
             <<Expand(ctor.args.recurrent_kernel_size, 2)[1] \div 2,
               Expand(ctor.args.recurrent_kernel_size, 2)[2] \div 2>>

(***************************************************************************)
(* Properties of the values of forward and of the scan (SpecValues).       *)
(***************************************************************************)
\* The sum of the elements of t (integers) under the window of a
\* convolution at output position pos of batch entry b, over all channels,
\* with zero padding.
WindowSum(t, kernel_size, stride, padding, b, pos) ==
    LET nd == Len(kernel_size)
        taps == Taps(t.shape[2], kernel_size)
        at(q) ==
            LET j == [a \in 1..nd |->
                         (pos[a] - 1) * stride[a] + taps[q][2][a] - padding[a]]
            IN IF \A a \in 1..nd : j[a] \in 1..t.shape[a + 2]
               THEN t.data[<<b, taps[q][1]>> \o j][2]
               ELSE 0
    IN SumSeq([q \in 1..Len(taps) |-> at(q)], Len(taps))

InputWindowSum(c, t, idx) ==
    WindowSum(t, c.conv_ih.kernel_size, c.conv_ih.stride, c.conv_ih.padding,
              idx[1], Spatial(idx))

HiddenWindowSum(c, t, idx) ==
    WindowSum(t, c.conv_hh.kernel_size, c.conv_hh.stride, c.conv_hh.padding,
              idx[1], Spatial(idx))

\* The cell of the identity-gate test: kernel 3, stride 1, padding 1, equal
\* channel counts, the repeated Dirac kernel, -10**5 from hidden to hidden.
IsIdentityGate(c) ==
    /\ c.nd = 1
    /\ c.conv_ih.in_channels = c.h_channels
    /\ c.conv_ih.kernel_size = <<3>> /\ c.conv_ih.stride = <<1>>
    /\ c.conv_ih.padding = <<1>>
    /\ c.conv_ih.weight.known /\ c.conv_hh.weight.known
    /\ \A idx \in IdxSet(c.conv_ih.weight.shape) :
          c.conv_ih.weight.data[idx] =
             IF ((idx[1] - 1) % c.h_channels) + 1 = idx[2] /\ idx[3] = 2
             THEN Num(1) ELSE Num(0)
    /\ \A idx \in IdxSet(c.conv_hh.weight.shape) :
          c.conv_hh.weight.data[idx] = Num(-BigWeight)

\* A completed call with a hidden state given.
StepDone == fwd.called /\ ~fwd.locals.raised /\ ~fwd.hx.none

\* C6 (as claimed): with the identity-gate weights, step(input, hidden)
\* equals tanh(input) at every element, for any input and hidden state.
C6_IdentityGateAnyHidden ==
    (StepDone /\ IsIdentityGate(cell))
    => /\ fwd.locals.out.shape = fwd.input.shape
       /\ \A idx \in IdxSet(fwd.input.shape) :
             fwd.locals.out.data[idx] = Tanh(fwd.input.data[idx])

\* The update and reset pre-activations input - 10**5 * (window sum of the
\* hidden state) are at or below the point where sigmoid is 0.
IdentityGateSaturated ==
    \A idx \in IdxSet(fwd.input.shape) :
        fwd.input.data[idx][2] - BigWeight * HiddenWindowSum(cell, fwd.hx.t, idx)
            <= -SaturationPoint

\* C6 (amended): with the identity-gate weights, step(input, hidden) equals
\* tanh(input) at every element whenever, at every position, the input
\* minus 10**5 times the sum of the hidden state over all channels and the
\* zero-padded 3-wide window is at or below sigmoid's saturation point.
C6_IdentityGateSaturated ==
    (StepDone /\ IsIdentityGate(cell) /\ IdentityGateSaturated)
    => /\ fwd.locals.out.shape = fwd.input.shape
       /\ \A idx \in IdxSet(fwd.input.shape) :
             fwd.locals.out.data[idx] = Tanh(fwd.input.data[idx])

\* An identity-gate step on two channels whose result holds tanh(1) and
\* tanh(-1) while the hidden state holds neither.
C6_Witness ==
    /\ StepDone /\ IsIdentityGate(cell) /\ IdentityGateSaturated
    /\ cell.h_channels = 2
    /\ fwd.input.shape = <<2, 2, 3>>
    /\ fwd.locals.out.data[<<1, 1, 1>>] = <<"tanh", Num(1)>>
    /\ fwd.locals.out.data[<<1, 1, 2>>] = <<"tanh", Num(-1)>>

\* Weights of the pass-through test: every input-to-hidden weight 10**5,
\* every hidden-to-hidden weight 1, zero biases.
IsPassThrough(c) ==
    /\ c.conv_ih.weight.known /\ c.conv_hh.weight.known
    /\ c.conv_ih.bias.known /\ c.conv_hh.bias.known
    /\ \A idx \in IdxSet(c.conv_ih.weight.shape) :
          c.conv_ih.weight.data[idx] = Num(BigWeight)
    /\ \A idx \in IdxSet(c.conv_hh.weight.shape) : c.conv_hh.weight.data[idx] = Num(1)
    /\ \A idx \in IdxSet(c.conv_ih.bias.shape) : c.conv_ih.bias.data[idx] = Num(0)
    /\ \A idx \in IdxSet(c.conv_hh.bias.shape) : c.conv_hh.bias.data[idx] = Num(0)

\* C7 (as claimed): with the pass-through weights, step(input, hidden)
\* equals hidden at every element, for any input and hidden state.
C7_PassThroughAnyInput ==
    (StepDone /\ IsPassThrough(cell))
    => /\ fwd.locals.out.shape = fwd.hx.t.shape
       /\ \A idx \in IdxSet(fwd.hx.t.shape) :
             fwd.locals.out.data[idx] = fwd.hx.t.data[idx]

\* The update pre-activation 10**5 * (window sum of the input) + (window
\* sum of the hidden state) is at or above the point where sigmoid is 1.
PassThroughSaturated ==
    \A idx \in IdxSet(fwd.hx.t.shape) :
        BigWeight * InputWindowSum(cell, fwd.input, idx)
            + HiddenWindowSum(cell, fwd.hx.t, idx) >= SaturationPoint

\* C7 (amended): with the pass-through weights, step(input, hidden) equals
\* hidden at every element whenever, at every position, 10**5 times the sum
\* of the input over all channels and the zero-padded kernel window, plus
\* the like sum of the hidden state, is at or above sigmoid's saturation
\* point.
C7_PassThroughSaturated ==
    (StepDone /\ IsPassThrough(cell) /\ PassThroughSaturated)
    => /\ fwd.locals.out.shape = fwd.hx.t.shape
       /\ \A idx \in IdxSet(fwd.hx.t.shape) :
             fwd.locals.out.data[idx] = fwd.hx.t.data[idx]

\* A pass-through step of the 2D cell that returns a hidden state of 1 and
\* -1 elements.
C7_Witness ==
    /\ StepDone /\ IsPassThrough(cell) /\ PassThroughSaturated
    /\ cell.nd = 2
    /\ fwd.locals.out.data[<<1, 1, 1, 1>>] = Num(1)
    /\ fwd.locals.out.data[<<1, 1, 1, 2>>] = Num(-1)

\* The element of a convolution output that the gate of the given block
\* (0: z, 1: r, 2: n) reads for element idx of the result.
BlockElement(c, t, block, idx) ==
    t.data[BIdx(t.shape, <<idx[1], block * c.h_channels + idx[2]>>
                             \o SubSeq(idx, 3, Len(idx)))]

\* C8: both convolutions give 3 * hidden_channels channels; with h the
\* hidden channel count, channel c of the result is (1 - z) * n + z * hx
\* with z = sigmoid(ih[c] + hh[c]), r = sigmoid(ih[h + c] + hh[h + c]) and
\* n = tanh(ih[2h + c] + r * hh[2h + c]), in the 1D and the 2D cell.
C8_GateBlocks ==
    (fwd.called /\ ~fwd.locals.raised)
    => LET ih == fwd.locals.ih_conv_output
           hh == fwd.locals.hh_conv_output
           hx == fwd.locals.hx
           out == fwd.locals.out
       IN /\ ih.shape[2] = 3 * cell.h_channels
          /\ hh.shape[2] = 3 * cell.h_channels
          /\ out.shape[2] = cell.h_channels
          /\ out.known = (ih.known /\ hh.known /\ hx.known)
          /\ out.known =>
                \A idx \in IdxSet(out.shape) :
                    LET z == Sigmoid(Add(BlockElement(cell, ih, 0, idx),
                                         BlockElement(cell, hh, 0, idx)))
                        r == Sigmoid(Add(BlockElement(cell, ih, 1, idx),
                                         BlockElement(cell, hh, 1, idx)))
                        n == Tanh(Add(BlockElement(cell, ih, 2, idx),
                                      Mul(r, BlockElement(cell, hh, 2, idx))))
                    IN out.data[idx] =
                          Add(Mul(OneMinus(z), n), Mul(z, hx.data[BIdx(hx.shape, idx)]))

\* A step of the 2D cell with two hidden channels whose gates are not
\* saturated.
C8_Witness ==
    /\ fwd.called /\ ~fwd.locals.raised /\ fwd.locals.out.known
    /\ cell.nd = 2 /\ cell.h_channels = 2
    /\ ~fwd.hx.none
    /\ \E idx \in IdxSet(fwd.locals.out.shape) : fwd.locals.out.data[idx][1] = "add"

\* The hidden state step i of the scan must receive.
ScanInput(i) == IF i = 1 THEN scan.initial ELSE Some(scan.output[i - 1])

\* C9: in a scan over T frames, step 0 receives the initial hidden state (or
\* None), step t > 0 the result of step t - 1; the output holds the result
\* of every step taken, in order; a completed scan has taken T steps and its
\* final hidden state is the last element of the output.
C9_ScanChain ==
    scan.pc \in {"running", "done"}
    => /\ Len(scan.output) = scan.step
       /\ \A i \in 1..scan.step :
             LET locals == Forward(cell, scan.frames[i], ScanInput(i))
             IN ~locals.raised /\ scan.output[i] = locals.out
       /\ scan.hx = ScanInput(scan.step + 1)
       /\ scan.pc = "running" => scan.step < scan.steps
       /\ scan.pc = "done" =>
             /\ scan.step = scan.steps
             /\ Len(scan.output) = scan.steps
             /\ scan.hx = Some(scan.output[scan.steps])

\* A completed scan of the most steps, from no hidden state, whose steps
\* returned different hidden states.
C9_Witness ==
    /\ scan.pc = "done"
    /\ scan.steps = MaxSteps
    /\ scan.initial.none
    /\ scan.output[1].known
    /\ scan.output[MaxSteps] # scan.output[MaxSteps - 1]

====
